---- MODULE Spec2Model ----
(***************************************************************************)
(* A model of qiskit/algorithms/gradients/base_qgt.py: the BaseQGT engine  *)
(* that caches one gradient circuit per structural circuit key, validates  *)
(* a batch, and reduces the QGT computed over the gradient circuit's       *)
(* unique parameters to the QGT of the original circuit (chain rule plus   *)
(* triangular completion).                                                 *)
(*                                                                         *)
(* Numbers: the floats of the code are integers here, a complex number is  *)
(* a pair <<re, im>>.  A numpy array of dtype float keeps only the real    *)
(* part of what is stored into it.                                         *)
(***************************************************************************)
EXTENDS Integers, Sequences, FiniteSets, TLC

VARIABLES
    derivative_type,   \* self._derivative_type
    cache,             \* self._gradient_circuit_cache: circuit key -> GradientCircuit
    request,           \* the (circuit, parameter_values, parameter_set) of one request
    raw,               \* the QGT over all parameters of the gradient circuit
    result,            \* the QGTResult returned by _postprocess
    reads,             \* the index pairs of results.qgts[idx] read by _postprocess
    base,              \* the result before a coefficient of the map was rescaled
    scaled,            \* which coefficient was rescaled, and by what factor
    pc,                \* position of the caller or of its job
    batch,             \* the arguments of the last call of run
    outcome,           \* how the last call ended: an exception, or "submitted"
    jobs,              \* number of AlgorithmJobs created and submitted
    runs,              \* number of calls of run
    oracle_calls,      \* number of round trips to the estimator
    unroll_calls,      \* per circuit key: invocations of the translator
    assign_calls,      \* per circuit key: invocations of _assign_unique_parameters
    seen,              \* the circuit keys _preprocess has been called with
    first_built,       \* per circuit key: the first GradientCircuit stored for it
    next_uid,          \* allocator of object identities (fresh Parameter objects)
    returned,          \* the GradientCircuit objects the last _preprocess used
    job,               \* the local variables of the running job
    callers            \* per concurrent caller: its local variables

vars == <<derivative_type, cache, request, raw, result, reads, base, scaled, pc,
          batch, outcome, jobs, runs, oracle_calls, unroll_calls, assign_calls,
          seen, first_built, next_uid, returned, job, callers>>

(***************************************************************************)
(* Bounds of the model.                                                    *)
(***************************************************************************)
MaxNonZero == 1    \* a drawn raw tensor has at most this many nonzero entries
MaxK == 2          \* the largest factor a constant coefficient is rescaled by
MaxBatch == 2      \* the largest number of circuits in one call of run
MaxRuns == 2       \* the number of calls of run on one engine

(***************************************************************************)
(* Complex arithmetic on pairs <<re, im>>.                                 *)
(***************************************************************************)
Re(z) == z[1]
Im(z) == z[2]
CZero == <<0, 0>>
CAdd(z, w) == <<z[1] + w[1], z[2] + w[2]>>
CScale(k, z) == <<k * z[1], k * z[2]>>
CConj(z) == <<z[1], 0 - z[2]>>
CNeg(z) == <<0 - z[1], 0 - z[2]>>

DerivativeTypes == {"real", "imag", "complex"}

(***************************************************************************)
(* The collaborators of base_qgt.py that live outside it: circuits with a  *)
(* declared parameter sequence and a structural key, the translator, and   *)
(* _assign_unique_parameters, which yields the gradient circuit and the    *)
(* parameter map.  A small library of circuits stands for the inputs.      *)
(***************************************************************************)
Range(seq) == {seq[i] : i \in DOMAIN seq}

\* list.index(x): the first position of x in seq
IndexOf(seq, x) == CHOOSE i \in 1..Len(seq) : seq[i] = x /\ \A j \in 1..(i - 1) : seq[j] # x

\* A coefficient of the parameter map: a number, or a ParameterExpression
\* val * var whose free parameter var is a parameter of the original circuit.
Const(c) == [kind |-> "const", val |-> c, var |-> "-"]
Expr(m, p) == [kind |-> "expr", val |-> m, var |-> p]

CircuitKeys == {"K0", "K1", "K2", "K3"}
ParameterizedKeys == {"K1", "K2", "K3"}

\* circuit.parameters, by structural key.  K0 declares no parameter.
Parameters(key) ==
    CASE key = "K1" -> <<"a", "b">>
      [] key = "K2" -> <<"a", "b", "c">>
      [] key = "K3" -> <<"a">>
      [] OTHER -> <<>>

NumParameters(key) == Len(Parameters(key))

\* A circuit object: its identity and its structure.
Circuit(id, key) == [id |-> id, key |-> key]

circuit_key(circuit) == circuit.key

\* translator(circuit): the unrolled circuit, a pure function of the structure.
Translate(circuit) == [unrolled |-> circuit.key]

\* Number of unique parameters of the gradient circuit, by key.
NumGradientParameters(key) ==
    CASE key = "K1" -> Len(<<"g1", "g2", "g3">>)
      [] key = "K2" -> Len(<<"g1", "g2", "g3">>)
      [] key = "K3" -> Len(<<"g1">>)
      [] OTHER -> Len(<<>>)

\* The fresh Parameter objects of one build: position i of build uid.
GParam(uid, i) == <<uid, i>>

\* _assign_unique_parameters(unrolled): the GradientCircuit built with object
\* identity uid.  K1 is the circuit of the end-to-end scenario; in K2 the
\* parameters a and b share one gate (angle a*b), and the only gate of c
\* comes first in the gradient circuit; K3 has one gate with angle 3*a.
AssignUniqueParameters(unrolled, uid) ==
    LET key == unrolled.unrolled
        g(i) == GParam(uid, i)
    IN  [uid |-> uid,
         key |-> key,
         gradient_circuit |->
            [parameters |-> [i \in 1..NumGradientParameters(key) |-> g(i)]],
         parameter_map |->
            CASE key = "K1" ->
                    [p \in {"a", "b"} |->
                        IF p = "a" THEN <<<<g(1), Const(1)>>, <<g(2), Const(1)>>>>
                                   ELSE <<<<g(3), Const(1)>>>>]
              [] key = "K2" ->
                    [p \in {"a", "b", "c"} |->
                        CASE p = "a" -> <<<<g(2), Expr(1, "b")>>, <<g(3), Const(2)>>>>
                          [] p = "b" -> <<<<g(2), Expr(1, "a")>>>>
                          [] OTHER -> <<<<g(1), Const(1)>>>>]
              [] key = "K3" ->
                    [p \in {"a"} |-> <<<<g(1), Const(3)>>>>]
              [] OTHER -> [p \in {} |-> <<>>]]

(***************************************************************************)
(* _postprocess, one circuit of the batch (lines 237-288).                 *)
(***************************************************************************)
\* numpy: storing into an array of dtype float keeps the real part.
Store(dtype, z) == IF dtype = "complex" THEN z ELSE <<Re(z), 0>>

\* line 240: dtype = complex if derivative_type == COMPLEX else float
DTypeOf(mode) == IF mode = "complex" THEN "complex" ELSE "float"

\* utils._make_gradient_parameter_set: the gradient parameters of the
\* requested parameters.
make_gradient_parameter_set(gradient_circuit, parameter_set) ==
    UNION {{e[1] : e \in Range(gradient_circuit.parameter_map[p])} : p \in parameter_set}

\* faulty variant: the requested parameters in reverse declaration order
parameter_indices_Reversed(circuit, parameter_set) ==
    LET fwd == SelectSeq(Parameters(circuit.key), LAMBDA p : p \in parameter_set)
    IN  [i \in 1..Len(fwd) |-> fwd[Len(fwd) + 1 - i]]

\* line 246: the requested parameters in the circuit's declared order
parameter_indices(circuit, parameter_set) ==
    SelectSeq(Parameters(circuit.key), LAMBDA p : p \in parameter_set)

\* lines 247-251: the gradient parameters in the gradient circuit's order
g_parameter_list(gradient_circuit, g_parameter_set) ==
    SelectSeq(gradient_circuit.gradient_circuit.parameters, LAMBDA g : g \in g_parameter_set)

\* line 252: {param: i for i, param in enumerate(...)}; 0 stands for a missing key
g_parameter_index(g_list, g) ==
    IF g \in Range(g_list) THEN IndexOf(g_list, g) ELSE 0

\* lines 260-275: a ParameterExpression is bound at the circuit's values, a
\* number passes through
BoundCoeff(coeff, circuit, parameter_values_) ==
    IF coeff.kind = "expr"
    THEN LET local_map == [p \in {coeff.var} |->
                              parameter_values_[IndexOf(Parameters(circuit.key), p)]]
         IN  coeff.val * local_map[coeff.var]
    ELSE coeff.val

\* faulty variant: the raw tensor read at the transposed position
RawIndex_Transposed(g_list, g1, g2) ==
    <<g_parameter_index(g_list, g2), g_parameter_index(g_list, g1)>>

\* lines 279-281: the entry of results.qgts[idx] one term reads
RawIndex(g_list, g1, g2) == <<g_parameter_index(g_list, g1), g_parameter_index(g_list, g2)>>

\* faulty variant: the second coefficient is left out of the product
Terms_MissingCoeff2(results_qgt, gradient_circuit, circuit, parameter_values_, g_list, p_row, p_col) ==
    LET m1 == gradient_circuit.parameter_map[p_row]
        m2 == gradient_circuit.parameter_map[p_col]
    IN  [k \in 1..(Len(m1) * Len(m2)) |->
            LET e1 == m1[((k - 1) \div Len(m2)) + 1]
                e2 == m2[((k - 1) % Len(m2)) + 1]
            IN  CScale(BoundCoeff(e1[2], circuit, parameter_values_),
                       results_qgt[<<g_parameter_index(g_list, e1[1]),
                                     g_parameter_index(g_list, e2[1])>>])]

\* lines 256-282: the terms added to qgt[row, col], in loop order
Terms(results_qgt, gradient_circuit, circuit, parameter_values_, g_list, p_row, p_col) ==
    LET m1 == gradient_circuit.parameter_map[p_row]
        m2 == gradient_circuit.parameter_map[p_col]
    IN  [k \in 1..(Len(m1) * Len(m2)) |->
            LET e1 == m1[((k - 1) \div Len(m2)) + 1]
                e2 == m2[((k - 1) % Len(m2)) + 1]
            IN  CScale(BoundCoeff(e1[2], circuit, parameter_values_)
                         * BoundCoeff(e2[2], circuit, parameter_values_),
                       results_qgt[RawIndex(g_list, e1[1], e2[1])])]

\* qgt[row, col] += term, for each term in turn
RECURSIVE Accumulate(_, _, _)
Accumulate(acc, terms, dtype) ==
    IF terms = <<>> THEN acc
    ELSE Accumulate(Store(dtype, CAdd(acc, Head(terms))), Tail(terms), dtype)

\* line 254: np.triu_indices(n)
triu_indices(n) == {rc \in (1..n) \X (1..n) : rc[1] <= rc[2]}

\* lines 241-282: the array after the loop over the upper triangle
UpperTriangle(results_qgt, gradient_circuit, circuit, parameter_values_, parameter_set, dtype) ==
    LET labels == parameter_indices(circuit, parameter_set)
        n == Len(labels)
        g_list == g_parameter_list(gradient_circuit,
                      make_gradient_parameter_set(gradient_circuit, parameter_set))
    IN  [rc \in (1..n) \X (1..n) |->
            IF rc \in triu_indices(n)
            THEN Accumulate(CZero,
                     Terms(results_qgt, gradient_circuit, circuit, parameter_values_,
                           g_list, labels[rc[1]], labels[rc[2]]),
                     dtype)
            ELSE CZero]

\* faulty variant: the lower triangle is the plain transpose in every mode
Complete_NoConjugate(qgt, mode, dtype) ==
    [rc \in DOMAIN qgt |->
        LET strict_upper_T == IF rc[2] < rc[1] THEN qgt[<<rc[2], rc[1]>>] ELSE CZero
        IN  IF mode = "imag"
            THEN Store(dtype, CAdd(qgt[rc], CNeg(strict_upper_T)))
            ELSE Store(dtype, CAdd(qgt[rc], strict_upper_T))]

\* faulty variant: the Hermitian completion is applied in every mode
Complete_AlwaysHermitian(qgt, mode, dtype) ==
    [rc \in DOMAIN qgt |->
        LET strict_upper_T == IF rc[2] < rc[1] THEN qgt[<<rc[2], rc[1]>>] ELSE CZero
        IN  Store(dtype, CAdd(qgt[rc], CConj(strict_upper_T)))]

\* lines 283-286: qgt += -1 * np.triu(qgt, k=1).T for IMAG, else
\* qgt += np.triu(qgt, k=1).conjugate().T
Complete(qgt, mode, dtype) ==
    [rc \in DOMAIN qgt |->
        LET strict_upper_T == IF rc[2] < rc[1] THEN qgt[<<rc[2], rc[1]>>] ELSE CZero
        IN  IF mode = "imag"
            THEN Store(dtype, CAdd(qgt[rc], CNeg(strict_upper_T)))
            ELSE Store(dtype, CAdd(qgt[rc], CConj(strict_upper_T)))]

\* The index pairs of results.qgts[idx] that lines 279-281 read.
RawReads(gradient_circuit, circuit, parameter_set) ==
    LET labels == parameter_indices(circuit, parameter_set)
        n == Len(labels)
        g_list == g_parameter_list(gradient_circuit,
                      make_gradient_parameter_set(gradient_circuit, parameter_set))
    IN  UNION {{RawIndex(g_list, e1[1], e2[1]) :
                    e1 \in Range(gradient_circuit.parameter_map[labels[rc[1]]]),
                    e2 \in Range(gradient_circuit.parameter_map[labels[rc[2]]])} :
               rc \in triu_indices(n)}

\* A lookup of line 280 that raises KeyError: a gradient parameter of the map
\* that is no key of g_parameter_indices.
MissingIndex(gradient_circuit, circuit, parameter_set) ==
    \E ij \in RawReads(gradient_circuit, circuit, parameter_set) : ij[1] = 0 \/ ij[2] = 0

\* One iteration of the loop of _postprocess: the tensor and its labels.
\* dtype_mode is self.derivative_type as read at line 240, sym_mode as read
\* at line 283.
postprocess_one(results_qgt, circuit, parameter_values_, parameter_set, gradient_circuit, dtype_mode, sym_mode) ==
    LET dtype == DTypeOf(dtype_mode)
    IN  [qgt |-> Complete(UpperTriangle(results_qgt, gradient_circuit, circuit,
                                        parameter_values_, parameter_set, dtype),
                          sym_mode, dtype),
         dtype |-> dtype,
         completion |-> IF sym_mode = "imag" THEN "antisymmetric" ELSE "hermitian",
         parameters |-> parameter_indices(circuit, parameter_set)]

(***************************************************************************)
(* Inputs: requests and raw tensors.                                       *)
(***************************************************************************)
\* The values a parameter is bound to.
ParameterValues == {1, 2}

\* The entries the estimator side returns: real in the modes REAL and IMAG,
\* complex in the mode COMPLEX.
RealRawValues == {<<1, 0>>, <<2, 0>>}
ComplexRawValues == {<<1, 1>>, <<1, 0 - 1>>}
RawValues(mode) == IF mode = "complex" THEN ComplexRawValues ELSE RealRawValues

\* The raw tensor of the end-to-end scenario over [a1, a2, b1], both
\* triangles filled.
ExampleRaw ==
    [ij \in (1..3) \X (1..3) |->
        LET i == IF ij[1] <= ij[2] THEN ij[1] ELSE ij[2]
            j == IF ij[1] <= ij[2] THEN ij[2] ELSE ij[1]
        IN  <<(CASE i = 1 -> j [] i = 2 -> j + 2 [] OTHER -> j + 3), 0>>]

Min(a, b) == IF a <= b THEN a ELSE b

\* The QGT the estimator side returns over n gradient parameters, computed
\* in the mode the engine has at that time.
EstimatorTensor(n, mode) ==
    [ij \in (1..n) \X (1..n) |->
        <<(n + 1) * Min(ij[1], ij[2]) + ij[1] + ij[2],
          IF mode = "complex" THEN ij[2] - ij[1] ELSE 0>>]

\* A raw tensor over n gradient parameters with nonzero entries exactly at
\* the positions of f.
SparseTensor(n, f) ==
    [ij \in (1..n) \X (1..n) |-> IF ij \in DOMAIN f THEN f[ij] ELSE CZero]

Positions(n) == {P \in SUBSET ((1..n) \X (1..n)) : Cardinality(P) <= MaxNonZero}

\* results.qgts[idx] for a request of the induced gradient parameters: the
\* estimator side returns the entries of those parameters, in the gradient
\* circuit's order.
PrincipalSubmatrix(tensor, keep) ==
    [ij \in (1..Len(keep)) \X (1..Len(keep)) |-> tensor[<<keep[ij[1]], keep[ij[2]]>>]]

OracleTensor(full, gradient_circuit, parameter_set) ==
    LET g_list == g_parameter_list(gradient_circuit,
                      make_gradient_parameter_set(gradient_circuit, parameter_set))
    IN  PrincipalSubmatrix(full,
            [i \in 1..Len(g_list) |->
                IndexOf(gradient_circuit.gradient_circuit.parameters, g_list[i])])

NoResult ==
    [qgt |-> <<>>, dtype |-> "-", completion |-> "-", parameters |-> <<>>,
     derivative_type |-> "-", error |-> "none"]
NoScale == [p |-> "-", i |-> 0, k |-> 0]
NoRequest == [circuit |-> Circuit("c0", "K0"), parameter_values |-> <<>>, parameter_set |-> {}]
NoBatch ==
    [circuits |-> [single |-> FALSE, items |-> <<>>], parameter_values |-> <<>>,
     parameters |-> [none |-> TRUE, items |-> <<>>]]

NoJob ==
    [circuits |-> <<>>, parameter_values |-> <<>>, parameter_sets |-> <<>>,
     g_parameter_sets |-> <<>>, raws |-> <<>>, idx |-> 0, dtype_mode |-> "-",
     qgts |-> <<>>]

\* The engine after construction (lines 94-101), before any call.
EngineIdle ==
    /\ batch = NoBatch
    /\ outcome = "none"
    /\ jobs = 0
    /\ runs = 0
    /\ oracle_calls = 0
    /\ unroll_calls = [k \in CircuitKeys |-> 0]
    /\ assign_calls = [k \in CircuitKeys |-> 0]
    /\ seen = {}
    /\ first_built = <<>>
    /\ next_uid = 1
    /\ returned = <<>>
    /\ job = NoJob
    /\ callers = <<>>

EngineVars == <<batch, outcome, jobs, runs, oracle_calls, unroll_calls, assign_calls,
                seen, first_built, next_uid, returned, job, callers>>

(***************************************************************************)
(* SpecPost: _postprocess applied to one request whose gradient circuit is *)
(* cached and whose raw tensor the estimator side has returned.            *)
(***************************************************************************)
InitPost ==
    /\ derivative_type \in DerivativeTypes
    /\ \E key \in ParameterizedKeys :
         LET circuit == Circuit("c1", key)
             gc == AssignUniqueParameters(Translate(circuit), 0)
             n == NumGradientParameters(key)
         IN  /\ cache = [k \in {key} |-> gc]
             /\ \E values \in [1..NumParameters(key) -> ParameterValues] :
                \E subset \in SUBSET Range(Parameters(key)) :
                   request = [circuit |-> circuit, parameter_values |-> values,
                              parameter_set |-> subset]
             /\ \/ \E P \in Positions(n) : \E f \in [P -> RawValues(derivative_type)] :
                      raw = SparseTensor(n, f)
                \/ /\ key = "K1"
                   /\ derivative_type = "real"
                   /\ raw = ExampleRaw
    /\ result = NoResult
    /\ reads = {}
    /\ base = NoResult
    /\ scaled = NoScale
    /\ pc = "oracle_done"
    /\ EngineIdle

\* results.qgts[idx] of the request.
RequestRaw ==
    OracleTensor(raw, cache[circuit_key(request.circuit)], request.parameter_set)

\* _postprocess for the request: line 243 reads the cache, lines 244-288
\* compute the tensor, lines 289-294 build the QGTResult.
PostprocessRequest ==
    LET circuit == request.circuit
        gc == cache[circuit_key(circuit)]
        results_qgt == RequestRaw
    IN  /\ result' = [error |-> "none", derivative_type |-> derivative_type]
                     @@ postprocess_one(results_qgt, circuit, request.parameter_values,
                                        request.parameter_set, gc,
                                        derivative_type, derivative_type)
        /\ reads' = RawReads(gc, circuit, request.parameter_set)

Postprocess ==
    /\ pc \in {"oracle_done", "rescaled"}
    /\ PostprocessRequest
    /\ pc' = "done"
    /\ UNCHANGED <<derivative_type, cache, request, raw, base, scaled, EngineVars>>

NextPost == Postprocess

SpecPost == InitPost /\ [][NextPost]_vars

(***************************************************************************)
(* The chain-rule contraction as the specification states it.              *)
(***************************************************************************)
RECURSIVE CSum(_, _)
CSum(S, f) ==
    IF S = {} THEN CZero
    ELSE LET x == CHOOSE y \in S : TRUE IN CAdd(f[x], CSum(S \ {x}, f))

DeclaredPosition(key, p) == CHOOSE i \in 1..Len(Parameters(key)) : Parameters(key)[i] = p

\* the k-th requested parameter in the circuit's declared order
RequestedAt(key, S, k) ==
    CHOOSE p \in S :
        Cardinality({q \in S : DeclaredPosition(key, q) <= DeclaredPosition(key, p)}) = k

\* the duplicated parameters induced by the requested subset
InducedSubset(gc, S) ==
    {g \in Range(gc.gradient_circuit.parameters) :
        \E p \in S : \E i \in DOMAIN gc.parameter_map[p] : gc.parameter_map[p][i][1] = g}

\* the position of g within the induced subset, in the gradient circuit's order
PositionIn(gc, S, g) ==
    LET gs == gc.gradient_circuit.parameters
        at == CHOOSE i \in DOMAIN gs : gs[i] = g
    IN  Cardinality({i \in 1..at : gs[i] \in InducedSubset(gc, S)})

\* a coefficient evaluated at the request's bound values
CoeffValue(coeff, key, values) ==
    IF coeff.kind = "const" THEN coeff.val
    ELSE coeff.val * values[DeclaredPosition(key, coeff.var)]

\* sum over (g1, coeff1) in map[p_row], (g2, coeff2) in map[p_col] of
\* coeff1 * coeff2 * tensor[index(g1), index(g2)]
ChainRuleSum(tensor, gc, key, values, S, p_row, p_col) ==
    LET m1 == gc.parameter_map[p_row]
        m2 == gc.parameter_map[p_col]
        pairs == (DOMAIN m1) \X (DOMAIN m2)
    IN  CSum(pairs,
             [ij \in pairs |->
                 CScale(CoeffValue(m1[ij[1]][2], key, values)
                          * CoeffValue(m2[ij[2]][2], key, values),
                        tensor[<<PositionIn(gc, S, m1[ij[1]][1]),
                                 PositionIn(gc, S, m2[ij[2]][1])>>])])

RequestKey == request.circuit.key
RequestGC == cache[RequestKey]
Size == Cardinality(request.parameter_set)

\* C1: for every request and every index pair row <= col over the requested
\* parameters in declared order, the entry tensor[row, col] returned by
\* _postprocess is the sum over (g1, coeff1) in parameter_map[p_row] and
\* (g2, coeff2) in parameter_map[p_col] of coeff1 * coeff2 *
\* raw_tensor[index(g1), index(g2)], the coefficients evaluated at the bound
\* values and index() the position within the induced duplicated subset.
C1_ChainRule ==
    pc = "done" =>
        \A row \in 1..Size : \A col \in row..Size :
            result.qgt[<<row, col>>] =
                ChainRuleSum(RequestRaw, RequestGC, RequestKey, request.parameter_values,
                             request.parameter_set,
                             RequestedAt(RequestKey, request.parameter_set, row),
                             RequestedAt(RequestKey, request.parameter_set, col))

\* The end-to-end scenario: map {a: [(a1,1),(a2,1)], b: [(b1,1)]}, raw tensor
\* [[1,2,3],[_,4,5],[_,_,6]], mode real, all parameters requested.
C1_Witness ==
    /\ pc = "done"
    /\ RequestKey = "K1"
    /\ derivative_type = "real"
    /\ raw = ExampleRaw
    /\ request.parameter_set = {"a", "b"}
    /\ result.qgt[<<1, 1>>] = <<9, 0>>
    /\ result.qgt[<<1, 2>>] = <<8, 0>>
    /\ result.qgt[<<2, 1>>] = <<8, 0>>
    /\ result.qgt[<<2, 2>>] = <<6, 0>>

\* C2 as claimed: in the modes real and complex the returned tensor equals
\* the conjugate of its transpose in every entry, the diagonal included.
C2_HermitianEverywhere ==
    (pc = "done" /\ derivative_type \in {"real", "complex"}) =>
        \A row \in 1..Size : \A col \in 1..Size :
            result.qgt[<<row, col>>] = CConj(result.qgt[<<col, row>>])

\* C2 as amended: in the modes real and complex every off-diagonal entry
\* tensor[row, col] is the conjugate of tensor[col, row]; in the mode real
\* every diagonal entry equals its own conjugate; in the mode complex a
\* diagonal entry is the chain-rule sum as the loop computed it.
C2_HermitianOffDiagonal ==
    (pc = "done" /\ derivative_type \in {"real", "complex"}) =>
        /\ \A row \in 1..Size : \A col \in 1..Size :
              row # col => result.qgt[<<row, col>>] = CConj(result.qgt[<<col, row>>])
        /\ derivative_type = "real" =>
              \A row \in 1..Size : result.qgt[<<row, row>>] = CConj(result.qgt[<<row, row>>])
        /\ derivative_type = "complex" =>
              \A row \in 1..Size :
                 result.qgt[<<row, row>>] =
                    ChainRuleSum(RequestRaw, RequestGC, RequestKey,
                                 request.parameter_values, request.parameter_set,
                                 RequestedAt(RequestKey, request.parameter_set, row),
                                 RequestedAt(RequestKey, request.parameter_set, row))

\* a complex result with an off-diagonal entry that is not real, next to a
\* diagonal entry that is not real
C2_Witness ==
    /\ pc = "done"
    /\ derivative_type = "complex"
    /\ \E row \in 1..Size : \E col \in 1..Size :
          /\ row < col
          /\ Im(result.qgt[<<row, col>>]) # 0
          /\ result.qgt[<<col, row>>] = CConj(result.qgt[<<row, col>>])
          /\ Im(result.qgt[<<row, row>>]) # 0

\* C3 as claimed: in the mode imaginary the returned tensor equals the
\* negation of its transpose in every entry, so the diagonal is zero.
C3_AntisymmetricEverywhere ==
    (pc = "done" /\ derivative_type = "imag") =>
        \A row \in 1..Size : \A col \in 1..Size :
            result.qgt[<<row, col>>] = CNeg(result.qgt[<<col, row>>])

\* C3 as amended: in the mode imaginary every off-diagonal entry
\* tensor[row, col] is the negation of tensor[col, row], and every diagonal
\* entry is the chain-rule sum as the loop computed it (the completion step
\* leaves it alone); it is zero only when the raw entries it sums cancel.
C3_AntisymmetricOffDiagonal ==
    (pc = "done" /\ derivative_type = "imag") =>
        /\ \A row \in 1..Size : \A col \in 1..Size :
              row # col => result.qgt[<<row, col>>] = CNeg(result.qgt[<<col, row>>])
        /\ \A row \in 1..Size :
              result.qgt[<<row, row>>] =
                 ChainRuleSum(RequestRaw, RequestGC, RequestKey,
                              request.parameter_values, request.parameter_set,
                              RequestedAt(RequestKey, request.parameter_set, row),
                              RequestedAt(RequestKey, request.parameter_set, row))

\* an imaginary-mode result with a nonzero off-diagonal pair and a nonzero
\* diagonal entry
C3_Witness ==
    /\ pc = "done"
    /\ derivative_type = "imag"
    /\ \E row \in 1..Size : \E col \in 1..Size :
          /\ row < col
          /\ result.qgt[<<row, col>>] # CZero
          /\ result.qgt[<<col, row>>] = CNeg(result.qgt[<<row, col>>])
          /\ result.qgt[<<row, row>>] # CZero

\* The result of requesting every parameter of the request's circuit, for
\* the same bound values and the same raw tensor over all gradient parameters.
FullResult ==
    LET all == Range(Parameters(RequestKey))
    IN  postprocess_one(OracleTensor(raw, RequestGC, all), request.circuit,
                        request.parameter_values, all, RequestGC,
                        derivative_type, derivative_type)

\* C4: when the raw tensor of the induced duplicated subset is the principal
\* submatrix of the raw tensor of all duplicated parameters, the result for
\* the subset S is the principal submatrix (rows and columns restricted to S,
\* in declared order) of the result for all parameters, and the labels
\* returned are S in declared order.
C4_SubsetConsistency ==
    pc = "done" =>
        /\ \A row \in 1..Size : \A col \in 1..Size :
              result.qgt[<<row, col>>] =
                 FullResult.qgt[<<DeclaredPosition(RequestKey,
                                      RequestedAt(RequestKey, request.parameter_set, row)),
                                  DeclaredPosition(RequestKey,
                                      RequestedAt(RequestKey, request.parameter_set, col))>>]
        /\ DOMAIN result.qgt = (1..Size) \X (1..Size)
        /\ result.parameters =
              [k \in 1..Size |-> RequestedAt(RequestKey, request.parameter_set, k)]

\* a proper subset that skips a parameter in the middle of the declared
\* order, with a nonzero entry between its two parameters
C4_Witness ==
    /\ pc = "done"
    /\ RequestKey = "K2"
    /\ request.parameter_set = {"a", "c"}
    /\ result.parameters = <<"a", "c">>
    /\ result.qgt[<<1, 2>>] # CZero
    /\ FullResult.qgt[<<1, 3>>] = result.qgt[<<1, 2>>]
    /\ DOMAIN FullResult.qgt # DOMAIN result.qgt

\* C8: every entry of the raw tensor that _postprocess reads has row index
\* <= column index; no entry strictly below the diagonal is read.
C8_UpperTriangleReadsOnly ==
    pc = "done" => \A ij \in reads : ij[1] <= ij[2]

(***************************************************************************)
(* SpecLin: a synthetic parameter map.  After _postprocess has answered a  *)
(* request for all parameters, one constant coefficient of the cached map  *)
(* is multiplied by k and _postprocess answers the same request again.     *)
(***************************************************************************)
ScaleFactors == {0 - 1, 0} \cup (2..MaxK)

OnePosition(n) == {P \in SUBSET ((1..n) \X (1..n)) : Cardinality(P) = 1}

\* Every parameter is requested; the raw tensor is the dense one of the
\* estimator side or has a single nonzero entry.
InitLin ==
    /\ derivative_type \in DerivativeTypes
    /\ \E key \in ParameterizedKeys :
         LET circuit == Circuit("c1", key)
             gc == AssignUniqueParameters(Translate(circuit), 0)
             n == NumGradientParameters(key)
         IN  /\ cache = [k \in {key} |-> gc]
             /\ \E values \in [1..NumParameters(key) -> ParameterValues] :
                   request = [circuit |-> circuit, parameter_values |-> values,
                              parameter_set |-> Range(Parameters(key))]
             /\ \/ raw = EstimatorTensor(n, derivative_type)
                \/ \E P \in OnePosition(n) : \E f \in [P -> RawValues(derivative_type)] :
                      raw = SparseTensor(n, f)
    /\ result = NoResult
    /\ reads = {}
    /\ base = NoResult
    /\ scaled = NoScale
    /\ pc = "oracle_done"
    /\ EngineIdle

\* parameter_map[p][i] = (g, c) becomes (g, k * c)
RescaledMap(parameter_map, p, i, k) ==
    [parameter_map EXCEPT ![p][i] = <<@[1], Const(k * @[2].val)>>]

Rescale(p, i, k) ==
    /\ pc = "done"
    /\ scaled = NoScale
    /\ p \in DOMAIN RequestGC.parameter_map
    /\ i \in DOMAIN RequestGC.parameter_map[p]
    /\ RequestGC.parameter_map[p][i][2].kind = "const"
    /\ cache' = [cache EXCEPT ![RequestKey].parameter_map = RescaledMap(@, p, i, k)]
    /\ base' = result
    /\ scaled' = [p |-> p, i |-> i, k |-> k]
    /\ pc' = "rescaled"
    /\ UNCHANGED <<derivative_type, request, raw, result, reads, EngineVars>>

NextLin ==
    \/ Postprocess
    \/ \E p \in DOMAIN RequestGC.parameter_map :
          \E i \in DOMAIN RequestGC.parameter_map[p] : \E k \in ScaleFactors :
              Rescale(p, i, k)

SpecLin == InitLin /\ [][NextLin]_vars

Rescaled == pc = "done" /\ scaled # NoScale
ScaledRow == DeclaredPosition(RequestKey, scaled.p)

\* C7 as claimed: replacing the constant coefficient c of one entry of
\* parameter_map[p] by k * c multiplies every result entry in row p or in
\* column p by k, the diagonal entry [p, p] included.
C7_EveryEntryTimesK ==
    Rescaled =>
        \A row \in 1..Size : \A col \in 1..Size :
            (row = ScaledRow \/ col = ScaledRow) =>
                result.qgt[<<row, col>>] = CScale(scaled.k, base.qgt[<<row, col>>])

\* The map before the rescaling.
OriginalGC == AssignUniqueParameters(Translate(request.circuit), RequestGC.uid)

\* How often the rescaled coefficient occurs in the term that pairs entry i
\* of parameter_map[p_row] with entry j of parameter_map[p_col].
Occurrences(p_row, i, p_col, j) ==
    (IF p_row = scaled.p /\ i = scaled.i THEN 1 ELSE 0)
    + (IF p_col = scaled.p /\ j = scaled.i THEN 1 ELSE 0)

Power(k, e) == IF e = 0 THEN 1 ELSE IF e = 1 THEN k ELSE k * k

\* The chain-rule sum of the original map, each term multiplied by k once
\* for every occurrence of the rescaled coefficient in it.
TermwiseScaledSum(p_row, p_col) ==
    LET m1 == OriginalGC.parameter_map[p_row]
        m2 == OriginalGC.parameter_map[p_col]
        pairs == (DOMAIN m1) \X (DOMAIN m2)
        S == request.parameter_set
    IN  CSum(pairs,
             [ij \in pairs |->
                 CScale(Power(scaled.k, Occurrences(p_row, ij[1], p_col, ij[2]))
                          * CoeffValue(m1[ij[1]][2], RequestKey, request.parameter_values)
                          * CoeffValue(m2[ij[2]][2], RequestKey, request.parameter_values),
                        RequestRaw[<<PositionIn(OriginalGC, S, m1[ij[1]][1]),
                                     PositionIn(OriginalGC, S, m2[ij[2]][1])>>])])

\* C7 as amended: the rescaling multiplies by k each term of a chain-rule sum
\* once per occurrence of the coefficient in it.  When (g, c) is the only
\* entry of parameter_map[p], every off-diagonal entry in row p or column p
\* is multiplied by k and the diagonal entry [p, p] by k * k; entries in
\* neither row p nor column p are unchanged.
C7_TermwiseLinear ==
    Rescaled =>
        /\ \A row \in 1..Size : \A col \in row..Size :
              result.qgt[<<row, col>>] =
                 TermwiseScaledSum(RequestedAt(RequestKey, request.parameter_set, row),
                                   RequestedAt(RequestKey, request.parameter_set, col))
        /\ \A row \in 1..Size : \A col \in 1..Size :
              (row # ScaledRow /\ col # ScaledRow) =>
                  result.qgt[<<row, col>>] = base.qgt[<<row, col>>]
        /\ Len(OriginalGC.parameter_map[scaled.p]) = 1 =>
              /\ \A row \in 1..Size : \A col \in 1..Size :
                    ((row = ScaledRow) # (col = ScaledRow)) =>
                        result.qgt[<<row, col>>] = CScale(scaled.k, base.qgt[<<row, col>>])
              /\ result.qgt[<<ScaledRow, ScaledRow>>] =
                    CScale(scaled.k * scaled.k, base.qgt[<<ScaledRow, ScaledRow>>])

\* the only coefficient of a parameter rescaled by k = 2: a nonzero diagonal
\* entry is multiplied by 4, a nonzero off-diagonal entry by 2
C7_Witness ==
    /\ Rescaled
    /\ scaled.k = 2
    /\ Len(OriginalGC.parameter_map[scaled.p]) = 1
    /\ base.qgt[<<ScaledRow, ScaledRow>>] # CZero
    /\ result.qgt[<<ScaledRow, ScaledRow>>] = CScale(4, base.qgt[<<ScaledRow, ScaledRow>>])
    /\ \E col \in 1..Size :
          /\ col # ScaledRow
          /\ base.qgt[<<ScaledRow, col>>] # CZero
          /\ result.qgt[<<ScaledRow, col>>] = CScale(2, base.qgt[<<ScaledRow, col>>])

(***************************************************************************)
(* The engine: run (lines 141-164), _validate_arguments (313-332),         *)
(* _preprocess (199-214) and _postprocess (236-294) as the steps of the    *)
(* job that run submits.                                                   *)
(***************************************************************************)
SeqsUpTo(S, n) == UNION {[1..k -> S] : k \in 0..n}

NoneEntry == [none |-> TRUE, set |-> {}]
SetEntry(S) == [none |-> FALSE, set |-> S]

NoQGTResult == [qgts |-> <<>>, derivative_type |-> "-", metadata |-> <<>>]

\* lines 141-143: a single circuit is wrapped into a tuple
Circuits(args) == args.circuits.items

AllParameters(circuit) == Range(Parameters(circuit.key))

\* lines 145-155: the parameter sets of the batch.  circuits[i] of line 153
\* raises IndexError when a None entry has no circuit at its position.
ParameterSets(circuits, parameters) ==
    IF parameters.none
    THEN [error |-> "none",
          sets |-> [i \in 1..Len(circuits) |-> AllParameters(circuits[i])]]
    ELSE IF \E i \in 1..Len(parameters.items) :
               parameters.items[i].none /\ i > Len(circuits)
    THEN [error |-> "IndexError", sets |-> <<>>]
    ELSE [error |-> "none",
          sets |-> [i \in 1..Len(parameters.items) |->
                      IF parameters.items[i].none
                      THEN AllParameters(circuits[i])
                      ELSE parameters.items[i].set]]

\* lines 313-332: TRUE when _validate_arguments raises ValueError
validate_arguments(circuits, parameter_values, parameter_sets) ==
    \/ Len(circuits) # Len(parameter_values)
    \/ Len(circuits) # Len(parameter_sets)
    \/ \E i \in 1..Len(circuits) :
          \/ NumParameters(circuits[i].key) = 0
          \/ Len(parameter_values[i]) # NumParameters(circuits[i].key)

\* How run ends for the arguments args.
RunOutcome(args) ==
    LET sets == ParameterSets(Circuits(args), args.parameters)
    IN  IF sets.error # "none" THEN sets.error
        ELSE IF validate_arguments(Circuits(args), args.parameter_values, sets.sets)
        THEN "ValueError"
        ELSE "submitted"

\* run(circuits, parameter_values, parameters): an exception, or the job is
\* created and submitted (lines 160-164).
Run(args) ==
    /\ pc = "idle"
    /\ runs < MaxRuns
    /\ runs' = runs + 1
    /\ batch' = args
    /\ outcome' = RunOutcome(args)
    /\ IF RunOutcome(args) = "submitted"
       THEN /\ jobs' = jobs + 1
            /\ job' = [NoJob EXCEPT
                         !.circuits = Circuits(args),
                         !.parameter_values = args.parameter_values,
                         !.parameter_sets =
                             ParameterSets(Circuits(args), args.parameters).sets]
            /\ pc' = "submitted"
       ELSE /\ UNCHANGED <<jobs, job>>
            /\ pc' = "raised"
    /\ UNCHANGED <<derivative_type, cache, request, raw, result, reads, base, scaled,
                   oracle_calls, unroll_calls, assign_calls, seen, first_built,
                   next_uid, returned, callers>>

\* The exception of the call (or of its job) reaches the caller; the
\* arguments of the call are gone.
Raise ==
    /\ pc = "raised"
    /\ pc' = "idle"
    /\ batch' = NoBatch
    /\ outcome' = "none"
    /\ UNCHANGED <<derivative_type, cache, request, raw, result, reads, base, scaled,
                   jobs, runs, oracle_calls, unroll_calls, assign_calls, seen,
                   first_built, next_uid, returned, job, callers>>

\* The caller takes the result of the finished job.
Collect ==
    /\ pc = "returned"
    /\ pc' = "idle"
    /\ batch' = NoBatch
    /\ outcome' = "none"
    /\ result' = NoQGTResult
    /\ returned' = <<>>
    /\ UNCHANGED <<derivative_type, cache, request, raw, reads, base, scaled,
                   jobs, runs, oracle_calls, unroll_calls, assign_calls, seen,
                   first_built, next_uid, job, callers>>

\* faulty variant: the membership test always misses
NeedsBuild_Always(gcache, key) == TRUE

\* line 205: circuit_key not in self._gradient_circuit_cache
NeedsBuild(gcache, key) == key \notin DOMAIN gcache

\* line 207: self._gradient_circuit_cache[circuit_key] = ...
CacheInsert(gcache, key, gradient_circuit) ==
    [k \in (DOMAIN gcache) \cup {key} |-> IF k = key THEN gradient_circuit ELSE gcache[k]]

\* faulty variant: a lookup removes the entry it returns
CacheAfterLookup_Pop(gcache, key) == [k \in (DOMAIN gcache) \ {key} |-> gcache[k]]

\* lines 208 and 243: self._gradient_circuit_cache[key] reads the entry and
\* leaves the dictionary as it is
CacheAfterLookup(gcache, key) == gcache

\* lines 201-213: the loop of _preprocess from position i on.  st carries
\* the cache, the instrumentation and the lists being built.
RECURSIVE preprocess_loop(_, _, _, _)
preprocess_loop(st, circuits, parameter_sets, i) ==
    IF i > Len(circuits) \/ i > Len(parameter_sets) THEN st
    ELSE
      LET circuit == circuits[i]
          key == circuit_key(circuit)
          miss == NeedsBuild(st.cache, key)
          built == AssignUniqueParameters(Translate(circuit), st.next_uid)
          cache1 == IF miss THEN CacheInsert(st.cache, key, built) ELSE st.cache
          gradient_circuit == cache1[key]
          bump(f) == IF miss THEN [f EXCEPT ![circuit.key] = @ + 1] ELSE f
      IN  preprocess_loop(
            [cache |-> CacheAfterLookup(cache1, key),
             unroll_calls |-> bump(st.unroll_calls),
             assign_calls |-> bump(st.assign_calls),
             next_uid |-> IF miss THEN st.next_uid + 1 ELSE st.next_uid,
             seen |-> st.seen \cup {circuit.key},
             first_built |->
                 IF miss /\ circuit.key \notin DOMAIN st.first_built
                 THEN [k \in (DOMAIN st.first_built) \cup {circuit.key} |->
                          IF k = circuit.key
                          THEN [object |-> built, circuit |-> circuit.id, run |-> runs]
                          ELSE st.first_built[k]]
                 ELSE st.first_built,
             returned |-> Append(st.returned,
                                 [key |-> circuit.key, circuit |-> circuit.id,
                                  object |-> gradient_circuit]),
             g_parameter_sets |->
                 Append(st.g_parameter_sets,
                        make_gradient_parameter_set(gradient_circuit, parameter_sets[i]))],
            circuits, parameter_sets, i + 1)

\* _preprocess for the batch of the job
JobPreprocess ==
    /\ pc = "submitted"
    /\ LET st == preprocess_loop(
                    [cache |-> cache, unroll_calls |-> unroll_calls,
                     assign_calls |-> assign_calls, next_uid |-> next_uid,
                     seen |-> seen, first_built |-> first_built,
                     returned |-> <<>>, g_parameter_sets |-> <<>>],
                    job.circuits, job.parameter_sets, 1)
       IN  /\ cache' = st.cache
           /\ unroll_calls' = st.unroll_calls
           /\ assign_calls' = st.assign_calls
           /\ next_uid' = st.next_uid
           /\ seen' = st.seen
           /\ first_built' = st.first_built
           /\ returned' = st.returned
           /\ job' = [job EXCEPT !.g_parameter_sets = st.g_parameter_sets]
    /\ pc' = "preprocessed"
    /\ UNCHANGED <<derivative_type, request, raw, result, reads, base, scaled, batch,
                   outcome, jobs, runs, oracle_calls, callers>>

\* the one round trip to the estimator: one raw tensor per circuit
JobOracle ==
    /\ pc = "preprocessed"
    /\ oracle_calls' = oracle_calls + 1
    /\ job' = [job EXCEPT
                 !.raws = [i \in 1..Len(job.circuits) |->
                              EstimatorTensor(Cardinality(job.g_parameter_sets[i]),
                                              derivative_type)],
                 !.idx = 1]
    /\ pc' = "post"
    /\ UNCHANGED <<derivative_type, cache, request, raw, result, reads, base, scaled,
                   batch, outcome, jobs, runs, unroll_calls, assign_calls, seen,
                   first_built, next_uid, returned, callers>>

\* lines 240-241: the first read of self.derivative_type, for circuit idx
PostDType ==
    /\ pc = "post"
    /\ job.idx <= Len(job.circuits)
    /\ job' = [job EXCEPT !.dtype_mode = derivative_type]
    /\ pc' = "post_loop"
    /\ UNCHANGED <<derivative_type, cache, request, raw, result, reads, base, scaled,
                   batch, outcome, jobs, runs, oracle_calls, unroll_calls, assign_calls,
                   seen, first_built, next_uid, returned, callers>>

\* lines 243-288 for circuit idx: the cache entry is read, the upper triangle
\* is accumulated, and self.derivative_type is read again for the completion.
\* A missing dictionary key raises KeyError and ends the job.
PostAggregate ==
    /\ pc = "post_loop"
    /\ LET circuit == job.circuits[job.idx]
           key == circuit_key(circuit)
       IN  IF key \notin DOMAIN cache
              \/ MissingIndex(cache[key], circuit, job.parameter_sets[job.idx])
           THEN /\ outcome' = "KeyError"
                /\ job' = NoJob
                /\ pc' = "raised"
                /\ UNCHANGED cache
           ELSE /\ job' = [job EXCEPT
                             !.qgts = Append(@,
                                 postprocess_one(job.raws[job.idx], circuit,
                                                 job.parameter_values[job.idx],
                                                 job.parameter_sets[job.idx],
                                                 cache[key], job.dtype_mode,
                                                 derivative_type)),
                             !.idx = @ + 1]
                /\ cache' = CacheAfterLookup(cache, key)
                /\ pc' = "post"
                /\ UNCHANGED outcome
    /\ UNCHANGED <<derivative_type, request, raw, result, reads, base, scaled, batch,
                   jobs, runs, oracle_calls, unroll_calls, assign_calls, seen,
                   first_built, next_uid, returned, callers>>

\* lines 289-294: the QGTResult, with the third read of self.derivative_type
PostReturn ==
    /\ pc = "post"
    /\ job.idx > Len(job.circuits)
    /\ result' = [qgts |-> job.qgts,
                  derivative_type |-> derivative_type,
                  metadata |-> [i \in 1..Len(job.qgts) |-> job.qgts[i].parameters]]
    /\ job' = NoJob
    /\ pc' = "returned"
    /\ UNCHANGED <<derivative_type, cache, request, raw, reads, base, scaled, batch,
                   outcome, jobs, runs, oracle_calls, unroll_calls, assign_calls, seen,
                   first_built, next_uid, returned, callers>>

\* lines 108-111: the derivative_type setter
SetDerivativeType(mode) ==
    /\ mode # derivative_type
    /\ derivative_type' = mode
    /\ UNCHANGED <<cache, request, raw, result, reads, base, scaled, pc, batch, outcome,
                   jobs, runs, oracle_calls, unroll_calls, assign_calls, seen,
                   first_built, next_uid, returned, job, callers>>

JobStep == JobPreprocess \/ JobOracle \/ PostDType \/ PostAggregate \/ PostReturn

\* lines 94-101: the engine after construction
InitEngine ==
    /\ derivative_type \in DerivativeTypes
    /\ cache = <<>>
    /\ request = NoRequest
    /\ raw = <<>>
    /\ result = NoQGTResult
    /\ reads = {}
    /\ base = NoResult
    /\ scaled = NoScale
    /\ pc = "idle"
    /\ EngineIdle

(***************************************************************************)
(* Spec: calls of run one after the other, each job awaited.               *)
(***************************************************************************)
\* c1 and c2 are distinct circuit objects of the same structure.
EngineCircuits ==
    {Circuit("c1", "K1"), Circuit("c2", "K1"), Circuit("c3", "K3"), Circuit("c0", "K0")}

ValuesFor(circuit) == [i \in 1..NumParameters(circuit.key) |-> i]

\* Batches whose lists match in length: every circuit with values of its
\* parameter count, and either no parameters argument, or one entry per
\* circuit, all None or all the subset {a}.
MatchedArgs ==
    UNION {
      {[circuits |-> [single |-> FALSE, items |-> cs],
        parameter_values |-> [i \in 1..Len(cs) |-> ValuesFor(cs[i])],
        parameters |-> ps] :
          ps \in {[none |-> TRUE, items |-> <<>>]}
                   \cup {[none |-> FALSE, items |-> [i \in 1..Len(cs) |-> e]] :
                            e \in {NoneEntry, SetEntry({"a"})}}} :
      cs \in SeqsUpTo(EngineCircuits, MaxBatch)}

Next ==
    \/ \E args \in MatchedArgs : Run(args)
    \/ JobStep
    \/ Raise
    \/ Collect

Spec == InitEngine /\ [][Next]_vars

RunCircuits == {Circuit("c1", "K1"), Circuit("c3", "K3"), Circuit("c0", "K0")}

AllArgs ==
    [circuits : {[single |-> FALSE, items |-> cs] : cs \in SeqsUpTo(RunCircuits, MaxBatch)}
                  \cup {[single |-> TRUE, items |-> <<c>>] : c \in RunCircuits},
     parameter_values : SeqsUpTo({<<1>>, <<1, 2>>}, MaxBatch),
     parameters : {[none |-> TRUE, items |-> <<>>]}
                    \cup {[none |-> FALSE, items |-> es] :
                             es \in SeqsUpTo({NoneEntry, SetEntry({"a"})}, MaxBatch)}]

NextRun ==
    \/ \E args \in AllArgs : Run(args)
    \/ JobStep
    \/ Raise
    \/ Collect
    \/ \E mode \in DerivativeTypes : SetDerivativeType(mode)

SpecRun == InitEngine /\ [][NextRun]_vars

\* A batch the claim calls invalid: the number of circuits differs from the
\* number of value sequences or from the number of parameters entries, a
\* value sequence does not have its circuit's parameter count, or a circuit
\* declares no parameter.
InvalidBatch(args) ==
    LET cs == Circuits(args)
    IN  \/ Len(cs) # Len(args.parameter_values)
        \/ ~args.parameters.none /\ Len(args.parameters.items) # Len(cs)
        \/ \E i \in 1..Min(Len(cs), Len(args.parameter_values)) :
              Len(args.parameter_values[i]) # NumParameters(cs[i].key)
        \/ \E i \in 1..Len(cs) : NumParameters(cs[i].key) = 0

\* C6: run fails with ValueError for every invalid batch, before any job is
\* created: the cache is unchanged, the estimator is not called and no
\* result is produced.
C6_InvalidBatchRaisesValueError ==
    [][(runs' = runs + 1 /\ InvalidBatch(batch')) =>
          /\ outcome' = "ValueError"
          /\ jobs' = jobs
          /\ cache' = cache
          /\ oracle_calls' = oracle_calls
          /\ result' = NoQGTResult
          /\ pc' = "raised"]_vars

CompletionOf(mode) == IF mode = "imag" THEN "antisymmetric" ELSE "hermitian"

\* C10: in every result of _postprocess one derivative mode determines the
\* element type of every tensor, the completion applied to every tensor and
\* the mode the result reports, also when the setter is called while the job
\* runs.
C10_OneModePerResult ==
    pc = "returned" =>
        \A i \in DOMAIN result.qgts :
            /\ result.qgts[i].dtype = DTypeOf(result.derivative_type)
            /\ result.qgts[i].completion = CompletionOf(result.derivative_type)

(***************************************************************************)
(* SpecConc: two callers use one engine at the same time with circuits of  *)
(* the same structural key.  The steps of _preprocess (lines 204-208) and  *)
(* the cache read of _postprocess (line 243) interleave freely.            *)
(***************************************************************************)
Callers == {"A", "B"}

NoGradientCircuit == AssignUniqueParameters(Translate(Circuit("c0", "K0")), 0)

ConcVars == <<request, raw, result, reads, base, scaled, pc, batch, outcome, jobs,
              runs, seen, first_built, returned, job>>

InitConc ==
    /\ derivative_type \in DerivativeTypes
    /\ cache = <<>>
    /\ request = NoRequest
    /\ raw = <<>>
    /\ result = NoQGTResult
    /\ reads = {}
    /\ base = NoResult
    /\ scaled = NoScale
    /\ pc = "concurrent"
    /\ batch = NoBatch
    /\ outcome = "none"
    /\ jobs = 0
    /\ runs = 0
    /\ oracle_calls = 0
    /\ unroll_calls = [k \in CircuitKeys |-> 0]
    /\ assign_calls = [k \in CircuitKeys |-> 0]
    /\ seen = {}
    /\ first_built = <<>>
    /\ next_uid = 1
    /\ returned = <<>>
    /\ job = NoJob
    /\ \E key \in {"K1", "K2"} : \E other \in {"c1", "c2"} :
       \E sets \in [Callers -> SUBSET Range(Parameters(key))] :
          callers = [c \in Callers |->
                       [pc |-> "check",
                        circuit |-> Circuit(IF c = "A" THEN "c1" ELSE other, key),
                        parameter_values2 |-> ValuesFor(Circuit("c1", key)),
                        parameter_set |-> sets[c],
                        miss |-> FALSE,
                        built |-> NoGradientCircuit,
                        gradient_circuit |-> NoGradientCircuit,
                        g_parameter_set |-> {},
                        results_qgt |-> <<>>,
                        post_gradient_circuit |-> NoGradientCircuit,
                        result |-> NoResult,
                        error |-> "none"]]

\* lines 204-205: the key and the membership test
CallerCheck(c) ==
    /\ callers[c].pc = "check"
    /\ LET miss == NeedsBuild(cache, circuit_key(callers[c].circuit))
       IN  callers' = [callers EXCEPT ![c].miss = miss,
                                      ![c].pc = IF miss THEN "unroll" ELSE "read_back"]
    /\ UNCHANGED <<derivative_type, cache, oracle_calls, unroll_calls, assign_calls,
                   next_uid, ConcVars>>

\* line 206: unrolled = translator(circuit)
CallerUnroll(c) ==
    /\ callers[c].pc = "unroll"
    /\ unroll_calls' = [unroll_calls EXCEPT ![callers[c].circuit.key] = @ + 1]
    /\ callers' = [callers EXCEPT ![c].pc = "assign"]
    /\ UNCHANGED <<derivative_type, cache, oracle_calls, assign_calls, next_uid, ConcVars>>

\* line 207, right-hand side: _assign_unique_parameters(unrolled)
CallerAssign(c) ==
    /\ callers[c].pc = "assign"
    /\ assign_calls' = [assign_calls EXCEPT ![callers[c].circuit.key] = @ + 1]
    /\ next_uid' = next_uid + 1
    /\ callers' = [callers EXCEPT
                     ![c].built = AssignUniqueParameters(Translate(callers[c].circuit),
                                                         next_uid),
                     ![c].pc = "insert"]
    /\ UNCHANGED <<derivative_type, cache, oracle_calls, unroll_calls, ConcVars>>

\* line 207, the store into the dictionary
CallerInsert(c) ==
    /\ callers[c].pc = "insert"
    /\ cache' = CacheInsert(cache, circuit_key(callers[c].circuit), callers[c].built)
    /\ callers' = [callers EXCEPT ![c].pc = "read_back"]
    /\ UNCHANGED <<derivative_type, oracle_calls, unroll_calls, assign_calls, next_uid,
                   ConcVars>>

\* lines 208-213: the entry is read back and the request for the estimator is
\* derived from it
CallerReadBack(c) ==
    /\ callers[c].pc = "read_back"
    /\ LET key == circuit_key(callers[c].circuit)
       IN  IF key \notin DOMAIN cache
           THEN /\ callers' = [callers EXCEPT ![c].error = "KeyError", ![c].pc = "failed"]
                /\ UNCHANGED cache
           ELSE /\ callers' = [callers EXCEPT
                                 ![c].gradient_circuit = cache[key],
                                 ![c].g_parameter_set =
                                     make_gradient_parameter_set(cache[key],
                                                                 callers[c].parameter_set),
                                 ![c].pc = "oracle"]
                /\ cache' = CacheAfterLookup(cache, key)
    /\ UNCHANGED <<derivative_type, oracle_calls, unroll_calls, assign_calls, next_uid,
                   ConcVars>>

\* the caller's round trip to the estimator
CallerOracle(c) ==
    /\ callers[c].pc = "oracle"
    /\ oracle_calls' = oracle_calls + 1
    /\ callers' = [callers EXCEPT
                     ![c].results_qgt =
                         EstimatorTensor(Cardinality(callers[c].g_parameter_set),
                                         derivative_type),
                     ![c].pc = "postprocess"]
    /\ UNCHANGED <<derivative_type, cache, unroll_calls, assign_calls, next_uid, ConcVars>>

\* _postprocess of the caller: line 243 reads the cache, the rest works on
\* what it read
CallerPostprocess(c) ==
    /\ callers[c].pc = "postprocess"
    /\ LET key == circuit_key(callers[c].circuit)
       IN  IF key \notin DOMAIN cache
              \/ MissingIndex(cache[key], callers[c].circuit, callers[c].parameter_set)
           THEN /\ callers' = [callers EXCEPT ![c].error = "KeyError", ![c].pc = "failed"]
                /\ UNCHANGED cache
           ELSE /\ callers' = [callers EXCEPT
                                 ![c].post_gradient_circuit = cache[key],
                                 ![c].result =
                                     [error |-> "none",
                                      derivative_type |-> derivative_type]
                                     @@ postprocess_one(callers[c].results_qgt,
                                                        callers[c].circuit,
                                                        callers[c].parameter_values2,
                                                        callers[c].parameter_set,
                                                        cache[key], derivative_type,
                                                        derivative_type),
                                 ![c].pc = "done"]
                /\ cache' = CacheAfterLookup(cache, key)
    /\ UNCHANGED <<derivative_type, oracle_calls, unroll_calls, assign_calls, next_uid,
                   ConcVars>>

NextConc ==
    \E c \in Callers :
        \/ CallerCheck(c)
        \/ CallerUnroll(c)
        \/ CallerAssign(c)
        \/ CallerInsert(c)
        \/ CallerReadBack(c)
        \/ CallerOracle(c)
        \/ CallerPostprocess(c)

SpecConc == InitConc /\ [][NextConc]_vars

\* The result of the caller's request when nothing else runs: the entry is
\* built, the estimator answers, _postprocess aggregates.
SerialResult(c) ==
    LET circuit == callers[c].circuit
        gc == AssignUniqueParameters(Translate(circuit), 0)
        n == Cardinality(InducedSubset(gc, callers[c].parameter_set))
    IN  postprocess_one(EstimatorTensor(n, derivative_type), circuit,
                        callers[c].parameter_values2, callers[c].parameter_set, gc,
                        derivative_type, derivative_type)

\* C9: under every interleaving of the two callers no caller finds the cache
\* entry missing, the cache ends with exactly one entry for the key, and each
\* caller's tensor and labels are those of a serial execution of its request.
C9_RaceIsBenign ==
    /\ \A c \in Callers : callers[c].error = "none" /\ callers[c].pc # "failed"
    /\ (\A c \in Callers : callers[c].pc = "done") =>
           DOMAIN cache = {circuit_key(callers["A"].circuit)}
    /\ \A c \in Callers :
          callers[c].pc = "done" =>
              /\ callers[c].result.qgt = SerialResult(c).qgt
              /\ callers[c].result.parameters = SerialResult(c).parameters

\* a caller whose _postprocess read the entry the other caller built, not
\* the object it used in _preprocess
C9_Witness ==
    /\ \A c \in Callers : callers[c].pc = "done"
    /\ \E c \in Callers :
          /\ callers[c].post_gradient_circuit.uid # callers[c].gradient_circuit.uid
          /\ callers[c].post_gradient_circuit.uid # callers[c].built.uid
          /\ callers[c].built.uid # 0
          /\ Cardinality(callers[c].parameter_set) >= 2
          /\ callers[c].result.qgt = SerialResult(c).qgt

====
